---- MODULE Spec2Model ----
(***************************************************************************)
(* LFG dungeon queue (main.cpp): N instance threads, one player generator *)
(* thread and the main thread, sharing the pool counters and the two      *)
(* lifecycle flags under state_mutex and player_available_cv.             *)
(*                                                                         *)
(* Each thread is a program counter.  A critical section is split at the  *)
(* points where another thread could observe a difference: acquiring the  *)
(* mutex, blocking in the condition wait (which releases the mutex), and  *)
(* leaving the section.  print_mutex is only ever taken last (nested      *)
(* inside state_mutex at main.cpp:80, alone elsewhere) and guards output  *)
(* only, so it is not part of the state.                                  *)
(***************************************************************************)
EXTENDS Integers, FiniteSets, Sequences, TLC

(* ----------------------------- bounds --------------------------------- *)
MaxInstances == 2
MaxInitParties == 2
MaxT == 2
MaxBonus == 1
MaxAddedParties == 1

(* ------------------------ program constants --------------------------- *)
PartyTanks == 1
PartyHealers == 1
PartyDps == 3
check_interval_ms == 500
MsPerSecond == 1000
GenerationPercent == 30
max_tanks_per_wave == 2
max_healers_per_wave == 2
max_dps_per_wave == 5
MAX_T2 == 15

(* state_mutex holds the id of the instance thread inside a locked block, *)
(* or NoOwner.  The generator's and main's locked blocks contain no wait  *)
(* and are single steps.                                                  *)
NoOwner == -1

VARIABLES
  g_instances, g_t1, g_t2, g_bonus_duration,   \* main.cpp:40-43, set from argv
  init_tanks, init_healers, init_dps,          \* argv[2..4] as parsed (261-263)
  g_tanks, g_healers, g_dps,                   \* main.cpp:41, the pool
  simulation_ended, bonus_mode_active,         \* main.cpp:52-53
  g_bonus_tanks_added, g_bonus_healers_added, g_bonus_dps_added,  \* 56-58
  status, served, total_time,                  \* instances[i], main.cpp:32-37, 46
  duration,                                    \* instance_loop's local, 113
  state_mutex,                                 \* main.cpp:47
  pc, gen_pc, main_pc,                         \* where each thread is
  new_players,                                 \* new_tanks, new_healers, new_dps (201-203)
  elapsed                                      \* current_time - start_time, in ms (174, 181-184)

config == <<g_instances, g_t1, g_t2, g_bonus_duration,
            init_tanks, init_healers, init_dps>>
pool == <<g_tanks, g_healers, g_dps>>
flags == <<simulation_ended, bonus_mode_active>>
bonus_stats == <<g_bonus_tanks_added, g_bonus_healers_added, g_bonus_dps_added>>
records == <<status, served, total_time>>
vars == <<config, pool, flags, bonus_stats, records, duration,
          state_mutex, pc, gen_pc, main_pc, new_players, elapsed>>

Workers == 0 .. (g_instances - 1)
AllIds == 0 .. (MaxInstances - 1)

(* std::clamp(v, lo, hi) *)
clamp(v, lo, hi) == IF v < lo THEN lo ELSE IF v > hi THEN hi ELSE v

(* a test that asks for more dps than a party takes *)
can_form_party_strict_dps == g_tanks >= 1 /\ g_healers >= 1 /\ g_dps > 3

(* a test that accepts a single dps *)
can_form_party_one_dps == g_tanks >= 1 /\ g_healers >= 1 /\ g_dps >= 1

(* main.cpp:60-63 *)
can_form_party == g_tanks >= 1 /\ g_healers >= 1 /\ g_dps >= 3

(* a wait that does not look at simulation_ended *)
instance_wait_pred_no_end == can_form_party

(* the predicate of the instance threads' wait, main.cpp:88-89 *)
instance_wait_pred == can_form_party \/ simulation_ended

(* a wait without its predicate: the generator starts at once *)
generator_wait_pred_always == TRUE

(* the predicate of the generator's wait, main.cpp:154-155 *)
generator_wait_pred == bonus_mode_active \/ simulation_ended

(* an exit test that does not look at the pool *)
instance_exit_cond_ignores_party == simulation_ended

(* an exit test with the negation dropped *)
instance_exit_cond_not_negated == simulation_ended /\ can_form_party

(* the exit test after the wait, main.cpp:91 *)
instance_exit_cond == simulation_ended /\ ~can_form_party

(* player_available_cv.notify_all(): every thread blocked in a wait is made *)
(* runnable; it still has to reacquire state_mutex and re-test its          *)
(* predicate.                                                               *)
Woken(p) == [i \in DOMAIN p |-> IF p[i] = "blocked" THEN "woken" ELSE p[i]]
GenWoken(g) == IF g = "g_blocked" THEN "g_woken" ELSE g

(* elapsed_seconds: duration_cast<seconds> truncates the elapsed time (kept *)
(* in milliseconds), main.cpp:181-184                                     *)
elapsed_seconds == elapsed \div MsPerSecond

(* --------------------------- initial state ---------------------------- *)
(* The state after main() has parsed, validated and clamped its arguments *)
(* (main.cpp:288-327), assigned the instances vector (339) and launched   *)
(* all threads (360-369).  The queue holds up to MaxInitParties tanks and  *)
(* up to MaxInitParties healers, each healer with a party's worth of dps. *)
Init ==
  /\ g_instances \in 1 .. MaxInstances
  /\ init_tanks \in 0 .. MaxInitParties
  /\ init_healers \in 0 .. MaxInitParties
  /\ init_dps = PartyDps * init_healers
  /\ \E t1 \in 1 .. MaxT, t2 \in 1 .. MaxT :
       /\ t1 <= t2
       /\ g_t2 = clamp(t2, 1, MAX_T2)
       /\ g_t1 = clamp(t1, 1, clamp(t2, 1, MAX_T2))
  /\ g_bonus_duration \in 0 .. MaxBonus
  /\ g_tanks = init_tanks
  /\ g_healers = init_healers
  /\ g_dps = init_dps
  /\ simulation_ended = FALSE
  /\ bonus_mode_active = FALSE
  /\ g_bonus_tanks_added = 0
  /\ g_bonus_healers_added = 0
  /\ g_bonus_dps_added = 0
  /\ status = [i \in Workers |-> "Empty"]
  /\ served = [i \in Workers |-> 0]
  /\ total_time = [i \in Workers |-> 0]
  /\ duration = [i \in Workers |-> 0]
  /\ state_mutex = NoOwner
  /\ pc = [i \in Workers |-> "lock"]
  /\ gen_pc = "g_lock"
  /\ main_pc = "join_workers"
  /\ new_players = <<0, 0, 0>>
  /\ elapsed = 0

(* --------------------------- instance_loop ---------------------------- *)
(* the block of the version without a generator: a thread that finds the  *)
(* pool short leaves its loop                                              *)
InstanceLock_exits_when_short(i) ==
  /\ pc[i] = "lock"
  /\ state_mutex = NoOwner
  /\ pc' = [pc EXCEPT ![i] = IF can_form_party THEN "form" ELSE "terminated"]
  /\ state_mutex' = IF can_form_party THEN i ELSE NoOwner
  /\ UNCHANGED <<config, pool, flags, bonus_stats, records, duration,
                 gen_pc, main_pc, new_players, elapsed>>

(* the same block with an activation test that does not look at the pool *)
InstanceLock_activation_unchecked(i) ==
  /\ pc[i] = "lock"
  /\ state_mutex = NoOwner
  /\ IF ~bonus_mode_active
       THEN /\ bonus_mode_active' = TRUE
            /\ gen_pc' = GenWoken(gen_pc)
            /\ pc' = [Woken(pc) EXCEPT
                        ![i] = IF instance_wait_pred THEN "form" ELSE "blocked"]
       ELSE /\ pc' = [pc EXCEPT
                        ![i] = IF instance_wait_pred THEN "form" ELSE "blocked"]
            /\ UNCHANGED <<bonus_mode_active, gen_pc>>
  /\ state_mutex' = IF instance_wait_pred THEN i ELSE NoOwner
  /\ UNCHANGED <<config, pool, simulation_ended, bonus_stats, records, duration,
                 main_pc, new_players, elapsed>>

(* the same block with the activation test inverted: bonus mode is never *)
(* switched on                                                            *)
InstanceLock_no_activation(i) ==
  /\ pc[i] = "lock"
  /\ state_mutex = NoOwner
  /\ pc' = [pc EXCEPT ![i] = IF instance_wait_pred THEN "form" ELSE "blocked"]
  /\ state_mutex' = IF instance_wait_pred THEN i ELSE NoOwner
  /\ UNCHANGED <<config, pool, flags, bonus_stats, records, duration,
                 gen_pc, main_pc, new_players, elapsed>>

(* main.cpp:73-89  take the mutex; activate bonus mode on the first failed  *)
(* attempt (notify_all wakes the generator); then the first evaluation of   *)
(* the wait predicate: go on with the mutex held, or release it and block.  *)
InstanceLock(i) ==
  /\ pc[i] = "lock"
  /\ state_mutex = NoOwner
  /\ IF ~can_form_party /\ ~bonus_mode_active
       THEN /\ bonus_mode_active' = TRUE
            /\ gen_pc' = GenWoken(gen_pc)
            /\ pc' = [Woken(pc) EXCEPT
                        ![i] = IF instance_wait_pred THEN "form" ELSE "blocked"]
       ELSE /\ pc' = [pc EXCEPT
                        ![i] = IF instance_wait_pred THEN "form" ELSE "blocked"]
            /\ UNCHANGED <<bonus_mode_active, gen_pc>>
  /\ state_mutex' = IF instance_wait_pred THEN i ELSE NoOwner
  /\ UNCHANGED <<config, pool, simulation_ended, bonus_stats, records, duration,
                 main_pc, new_players, elapsed>>

(* main.cpp:88-89  a notified (or spuriously woken) waiter reacquires the  *)
(* mutex inside wait() and evaluates the predicate again.                  *)
InstanceReacquire(i) ==
  /\ pc[i] = "woken"
  /\ state_mutex = NoOwner
  /\ pc' = [pc EXCEPT ![i] = IF instance_wait_pred THEN "form" ELSE "blocked"]
  /\ state_mutex' = IF instance_wait_pred THEN i ELSE NoOwner
  /\ UNCHANGED <<config, pool, flags, bonus_stats, records, duration,
                 gen_pc, main_pc, new_players, elapsed>>

(* condition_variable::wait may return without a notification *)
InstanceSpuriousWake(i) ==
  /\ pc[i] = "blocked"
  /\ pc' = [pc EXCEPT ![i] = "woken"]
  /\ UNCHANGED <<config, pool, flags, bonus_stats, records, duration,
                 state_mutex, gen_pc, main_pc, new_players, elapsed>>

(* the same block with the lock's scope extended over the dungeon run *)
InstanceForm_keeps_lock(i) ==
  /\ pc[i] = "form"
  /\ state_mutex = i
  /\ IF instance_exit_cond
       THEN /\ status' = [status EXCEPT ![i] = "Empty"]
            /\ pc' = [pc EXCEPT ![i] = "terminated"]
            /\ state_mutex' = NoOwner
            /\ UNCHANGED <<pool, duration>>
       ELSE /\ g_tanks' = g_tanks - PartyTanks
            /\ g_healers' = g_healers - PartyHealers
            /\ g_dps' = g_dps - PartyDps
            /\ status' = [status EXCEPT ![i] = "Active"]
            /\ \E d \in g_t1 .. g_t2 : duration' = [duration EXCEPT ![i] = d]
            /\ pc' = [pc EXCEPT ![i] = "sleep"]
            /\ UNCHANGED state_mutex
  /\ UNCHANGED <<config, flags, bonus_stats, served, total_time,
                 gen_pc, main_pc, new_players, elapsed>>

(* main.cpp:91-113  exit, or form the party and leave the locked block; the *)
(* run's duration is then drawn by random_int(g_t1, g_t2), a value in      *)
(* [g_t1, g_t2] (utils.cpp:6-11), local to the thread.                      *)
InstanceForm(i) ==
  /\ pc[i] = "form"
  /\ state_mutex = i
  /\ IF instance_exit_cond
       THEN /\ status' = [status EXCEPT ![i] = "Empty"]
            /\ pc' = [pc EXCEPT ![i] = "terminated"]
            /\ UNCHANGED <<pool, duration>>
       ELSE /\ g_tanks' = g_tanks - PartyTanks
            /\ g_healers' = g_healers - PartyHealers
            /\ g_dps' = g_dps - PartyDps
            /\ status' = [status EXCEPT ![i] = "Active"]
            /\ \E d \in g_t1 .. g_t2 : duration' = [duration EXCEPT ![i] = d]
            /\ pc' = [pc EXCEPT ![i] = "sleep"]
  /\ state_mutex' = NoOwner
  /\ UNCHANGED <<config, flags, bonus_stats, served, total_time,
                 gen_pc, main_pc, new_players, elapsed>>

(* main.cpp:122-126  the sleep ends and the thread takes the mutex again *)
InstanceRelock(i) ==
  /\ pc[i] = "sleep"
  /\ state_mutex = NoOwner
  /\ state_mutex' = i
  /\ pc' = [pc EXCEPT ![i] = "update"]
  /\ UNCHANGED <<config, pool, flags, bonus_stats, records, duration,
                 gen_pc, main_pc, new_players, elapsed>>

(* the same block without total_time += duration *)
InstanceUpdate_no_time(i) ==
  /\ pc[i] = "update"
  /\ state_mutex = i
  /\ served' = [served EXCEPT ![i] = @ + 1]
  /\ status' = [status EXCEPT ![i] = "Empty"]
  /\ duration' = [duration EXCEPT ![i] = 0]
  /\ state_mutex' = NoOwner
  /\ pc' = [pc EXCEPT ![i] = "lock"]
  /\ UNCHANGED <<config, pool, flags, bonus_stats, total_time,
                 gen_pc, main_pc, new_players, elapsed>>

(* the same block without served += 1 *)
InstanceUpdate_no_count(i) ==
  /\ pc[i] = "update"
  /\ state_mutex = i
  /\ total_time' = [total_time EXCEPT ![i] = @ + duration[i]]
  /\ status' = [status EXCEPT ![i] = "Empty"]
  /\ duration' = [duration EXCEPT ![i] = 0]
  /\ state_mutex' = NoOwner
  /\ pc' = [pc EXCEPT ![i] = "lock"]
  /\ UNCHANGED <<config, pool, flags, bonus_stats, served,
                 gen_pc, main_pc, new_players, elapsed>>

(* main.cpp:127-138  update the instance's stats, leave the locked block; *)
(* duration goes out of scope at the end of the iteration (146)          *)
InstanceUpdate(i) ==
  /\ pc[i] = "update"
  /\ state_mutex = i
  /\ served' = [served EXCEPT ![i] = @ + 1]
  /\ total_time' = [total_time EXCEPT ![i] = @ + duration[i]]
  /\ status' = [status EXCEPT ![i] = "Empty"]
  /\ duration' = [duration EXCEPT ![i] = 0]
  /\ state_mutex' = NoOwner
  /\ pc' = [pc EXCEPT ![i] = "lock"]
  /\ UNCHANGED <<config, pool, flags, bonus_stats,
                 gen_pc, main_pc, new_players, elapsed>>

(* ---------------------- player_generator_thread ----------------------- *)
(* main.cpp:153-158, 174  take the mutex and evaluate the wait predicate:  *)
(* block, or return if the simulation has ended, or leave the locked block *)
(* and read start_time.                                                     *)
GenLock ==
  /\ gen_pc = "g_lock"
  /\ state_mutex = NoOwner
  /\ gen_pc' = IF ~generator_wait_pred THEN "g_blocked"
               ELSE IF simulation_ended THEN "g_done" ELSE "g_loop"
  /\ UNCHANGED <<config, pool, flags, bonus_stats, records, duration,
                 state_mutex, pc, main_pc, new_players, elapsed>>

(* main.cpp:154-158, 174  the same after a wake-up *)
GenReacquire ==
  /\ gen_pc = "g_woken"
  /\ state_mutex = NoOwner
  /\ gen_pc' = IF ~generator_wait_pred THEN "g_blocked"
               ELSE IF simulation_ended THEN "g_done" ELSE "g_loop"
  /\ UNCHANGED <<config, pool, flags, bonus_stats, records, duration,
                 state_mutex, pc, main_pc, new_players, elapsed>>

GenSpuriousWake ==
  /\ gen_pc = "g_blocked"
  /\ gen_pc' = "g_woken"
  /\ UNCHANGED <<config, pool, flags, bonus_stats, records, duration,
                 state_mutex, pc, main_pc, new_players, elapsed>>

(* main.cpp:179-185  has the bonus duration elapsed? *)
bonus_expired == g_bonus_duration > 0 /\ elapsed_seconds >= g_bonus_duration

(* The accumulators are unbounded in the program; the model stops drawing *)
(* waves that would take them past MaxAddedParties parties' worth.        *)
WithinCap(nt, nh, nd) ==
  /\ g_bonus_tanks_added + nt <= MaxAddedParties * PartyTanks
  /\ g_bonus_healers_added + nh <= MaxAddedParties * PartyHealers
  /\ g_bonus_dps_added + nd <= MaxAddedParties * PartyDps

(* The same bound on the size of the pool, for the runs that do not record *)
(* the totals (see UncountedSpec).                                          *)
WithinPool(nt, nh, nd) ==
  /\ g_tanks + nt <= MaxAddedParties * PartyTanks
  /\ g_healers + nh <= MaxAddedParties * PartyHealers
  /\ g_dps + nd <= MaxAddedParties * PartyDps

(* main.cpp:176-206  top of the loop: expiry test, the roll and the draws. *)
(* random_int(0, 100) / 100.0 < 0.3 is decided by the integer drawn; the   *)
(* values on either side of the threshold and the two ends represent it.   *)
GenLoopWith(counted) ==
  /\ gen_pc = "g_loop"
  /\ IF bonus_expired
       THEN /\ gen_pc' = "g_expire"
            /\ UNCHANGED new_players
       ELSE \E r \in {0, GenerationPercent - 1, GenerationPercent, 100} :
              IF r < GenerationPercent
                THEN \E nt \in 0 .. max_tanks_per_wave,
                        nh \in 0 .. max_healers_per_wave,
                        nd \in 0 .. max_dps_per_wave :
                       /\ IF counted THEN WithinCap(nt, nh, nd)
                                     ELSE WithinPool(nt, nh, nd)
                       /\ IF nt > 0 \/ nh > 0 \/ nd > 0
                            THEN /\ new_players' = <<nt, nh, nd>>
                                 /\ gen_pc' = "g_deposit"
                            ELSE /\ gen_pc' = "g_sleep"
                                 /\ UNCHANGED new_players
                ELSE /\ gen_pc' = "g_sleep"
                     /\ UNCHANGED new_players
  /\ UNCHANGED <<config, pool, flags, bonus_stats, records, duration,
                 state_mutex, pc, main_pc, elapsed>>

GenLoop == GenLoopWith(TRUE)

(* leaving the loop on expiry without setting simulation_ended *)
GenExpire_no_flag ==
  /\ gen_pc = "g_expire"
  /\ state_mutex = NoOwner
  /\ gen_pc' = "g_notify_end"
  /\ UNCHANGED <<config, pool, flags, bonus_stats, records, duration,
                 state_mutex, pc, main_pc, new_players, elapsed>>

(* setting simulation_ended and going back to the top of the loop instead *)
(* of notifying and leaving it                                             *)
GenExpire_no_break ==
  /\ gen_pc = "g_expire"
  /\ state_mutex = NoOwner
  /\ simulation_ended' = TRUE
  /\ gen_pc' = "g_loop"
  /\ UNCHANGED <<config, pool, bonus_mode_active, bonus_stats, records, duration,
                 state_mutex, pc, main_pc, new_players, elapsed>>

(* main.cpp:188-191  simulation_ended = true under the mutex *)
GenExpire ==
  /\ gen_pc = "g_expire"
  /\ state_mutex = NoOwner
  /\ simulation_ended' = TRUE
  /\ gen_pc' = "g_notify_end"
  /\ UNCHANGED <<config, pool, bonus_mode_active, bonus_stats, records, duration,
                 state_mutex, pc, main_pc, new_players, elapsed>>

(* notify_all followed by continue instead of break: the loop goes on *)
GenNotifyEnd_no_break ==
  /\ gen_pc = "g_notify_end"
  /\ pc' = Woken(pc)
  /\ gen_pc' = "g_loop"
  /\ UNCHANGED <<config, pool, flags, bonus_stats, records, duration,
                 state_mutex, main_pc, new_players, elapsed>>

(* leaving the loop without notify_all *)
GenNotifyEnd_no_notify ==
  /\ gen_pc = "g_notify_end"
  /\ gen_pc' = "g_done"
  /\ UNCHANGED <<config, pool, flags, bonus_stats, records, duration,
                 state_mutex, pc, main_pc, new_players, elapsed>>

(* main.cpp:192-193, 238-245  notify_all, leave the loop, return *)
GenNotifyEnd ==
  /\ gen_pc = "g_notify_end"
  /\ pc' = Woken(pc)
  /\ gen_pc' = "g_done"
  /\ UNCHANGED <<config, pool, flags, bonus_stats, records, duration,
                 state_mutex, main_pc, new_players, elapsed>>

(* the same block with the dps of the wave not added to g_bonus_dps_added *)
GenDeposit_untracked_dps ==
  /\ gen_pc = "g_deposit"
  /\ state_mutex = NoOwner
  /\ g_tanks' = g_tanks + new_players[1]
  /\ g_healers' = g_healers + new_players[2]
  /\ g_dps' = g_dps + new_players[3]
  /\ g_bonus_tanks_added' = g_bonus_tanks_added + new_players[1]
  /\ g_bonus_healers_added' = g_bonus_healers_added + new_players[2]
  /\ gen_pc' = "g_notify"
  /\ UNCHANGED <<config, flags, records, duration, g_bonus_dps_added,
                 state_mutex, pc, main_pc, new_players, elapsed>>

(* main.cpp:208-218  add the wave to the pool and to the bonus counters *)
GenDeposit ==
  /\ gen_pc = "g_deposit"
  /\ state_mutex = NoOwner
  /\ g_tanks' = g_tanks + new_players[1]
  /\ g_healers' = g_healers + new_players[2]
  /\ g_dps' = g_dps + new_players[3]
  /\ g_bonus_tanks_added' = g_bonus_tanks_added + new_players[1]
  /\ g_bonus_healers_added' = g_bonus_healers_added + new_players[2]
  /\ g_bonus_dps_added' = g_bonus_dps_added + new_players[3]
  /\ gen_pc' = "g_notify"
  /\ UNCHANGED <<config, flags, records, duration,
                 state_mutex, pc, main_pc, new_players, elapsed>>

(* a deposit that is not followed by notify_all *)
GenNotify_no_notify ==
  /\ gen_pc = "g_notify"
  /\ new_players' = <<0, 0, 0>>
  /\ gen_pc' = "g_sleep"
  /\ UNCHANGED <<config, pool, flags, bonus_stats, records, duration,
                 state_mutex, pc, main_pc, elapsed>>

(* main.cpp:230  notify the waiting instance threads *)
GenNotify ==
  /\ gen_pc = "g_notify"
  /\ pc' = Woken(pc)
  /\ new_players' = <<0, 0, 0>>
  /\ gen_pc' = "g_sleep"
  /\ UNCHANGED <<config, pool, flags, bonus_stats, records, duration,
                 state_mutex, main_pc, elapsed>>

(* main.cpp:235  sleep_for(check_interval_ms).  The clock is only read when *)
(* a bonus duration is set (main.cpp:179).  A sleep that lasts longer than *)
(* the interval has the effect of further iterations whose roll fails,     *)
(* which change nothing but the clock, so one interval per sleep covers it. *)
GenSleep ==
  /\ gen_pc = "g_sleep"
  /\ elapsed' = IF g_bonus_duration > 0
                  THEN elapsed + check_interval_ms
                  ELSE elapsed
  /\ gen_pc' = "g_loop"
  /\ UNCHANGED <<config, pool, flags, bonus_stats, records, duration,
                 state_mutex, pc, main_pc, new_players>>

(* -------------------------------- main -------------------------------- *)
(* main.cpp:372-375  join every instance thread *)
MainJoinWorkers ==
  /\ main_pc = "join_workers"
  /\ \A i \in Workers : pc[i] = "terminated"
  /\ main_pc' = "shutdown"
  /\ UNCHANGED <<config, pool, flags, bonus_stats, records, duration,
                 state_mutex, pc, gen_pc, new_players, elapsed>>

(* the block assigning the negation of the flag instead of true *)
MainShutdown_toggles ==
  /\ main_pc = "shutdown"
  /\ state_mutex = NoOwner
  /\ simulation_ended' = ~simulation_ended
  /\ pc' = Woken(pc)
  /\ gen_pc' = GenWoken(gen_pc)
  /\ main_pc' = "join_gen"
  /\ UNCHANGED <<config, pool, bonus_mode_active, bonus_stats, records, duration,
                 state_mutex, new_players, elapsed>>

(* the block also switching bonus mode off *)
MainShutdown_deactivates ==
  /\ main_pc = "shutdown"
  /\ state_mutex = NoOwner
  /\ IF ~simulation_ended
       THEN /\ simulation_ended' = TRUE
            /\ pc' = Woken(pc)
            /\ gen_pc' = GenWoken(gen_pc)
       ELSE UNCHANGED <<simulation_ended, pc, gen_pc>>
  /\ bonus_mode_active' = FALSE
  /\ main_pc' = "join_gen"
  /\ UNCHANGED <<config, pool, bonus_stats, records, duration,
                 state_mutex, new_players, elapsed>>

(* main.cpp:378-385  end the simulation if nobody has *)
MainShutdown ==
  /\ main_pc = "shutdown"
  /\ state_mutex = NoOwner
  /\ IF ~simulation_ended
       THEN /\ simulation_ended' = TRUE
            /\ pc' = Woken(pc)
            /\ gen_pc' = GenWoken(gen_pc)
       ELSE UNCHANGED <<simulation_ended, pc, gen_pc>>
  /\ main_pc' = "join_gen"
  /\ UNCHANGED <<config, pool, bonus_mode_active, bonus_stats, records, duration,
                 state_mutex, new_players, elapsed>>

(* main.cpp:388  player_gen.join(), then the summary *)
MainJoinGen ==
  /\ main_pc = "join_gen"
  /\ gen_pc = "g_done"
  /\ main_pc' = "done"
  /\ UNCHANGED <<config, pool, flags, bonus_stats, records, duration,
                 state_mutex, pc, gen_pc, new_players, elapsed>>

(* ------------------------------ the system ---------------------------- *)
InstanceStep(i) ==
  \/ InstanceLock(i)
  \/ InstanceReacquire(i)
  \/ InstanceForm(i)
  \/ InstanceRelock(i)
  \/ InstanceUpdate(i)

GenStep ==
  \/ GenLock
  \/ GenReacquire
  \/ GenLoop
  \/ GenExpire
  \/ GenNotifyEnd
  \/ GenDeposit
  \/ GenNotify
  \/ GenSleep

MainStep ==
  \/ MainJoinWorkers
  \/ MainShutdown
  \/ MainJoinGen

SpuriousWake ==
  \/ \E i \in Workers : InstanceSpuriousWake(i)
  \/ GenSpuriousWake

Progress ==
  \/ \E i \in Workers : InstanceLock(i)
  \/ \E i \in Workers : InstanceReacquire(i)
  \/ \E i \in Workers : InstanceForm(i)
  \/ \E i \in Workers : InstanceRelock(i)
  \/ \E i \in Workers : InstanceUpdate(i)
  \/ GenStep
  \/ MainStep

Next ==
  \/ Progress
  \/ SpuriousWake

Spec == Init /\ [][Next]_vars

(* Fair scheduling: a thread that can keep taking a step eventually takes  *)
(* one.  No fairness is assumed of spurious wake-ups.                      *)
Fairness ==
  /\ \A i \in AllIds : WF_vars(i \in Workers /\ InstanceStep(i))
  /\ WF_vars(GenStep)
  /\ WF_vars(MainStep)

(* Durations do not influence the control flow; the liveness checks fix   *)
(* them to one second.                                                     *)
InitFair == Init /\ g_t2 = 1

FairSpec == InitFair /\ [][Next]_vars /\ Fairness

(* ------------------- runs with unboundedly many waves ------------------ *)
(* served, total_time and the g_bonus_*_added counters are written and     *)
(* never read by any thread before the summary (main.cpp:390-414), so the  *)
(* control flow does not depend on them.  To follow runs in which the      *)
(* generator keeps adding players for ever, the steps below are the same   *)
(* code with these statistics left unrecorded, and with the size of the    *)
(* pool, instead of the totals added, kept within MaxAddedParties parties. *)
GenLoopUncounted == GenLoopWith(FALSE)

(* main.cpp:208-212 *)
GenDepositUncounted ==
  /\ gen_pc = "g_deposit"
  /\ state_mutex = NoOwner
  /\ g_tanks' = g_tanks + new_players[1]
  /\ g_healers' = g_healers + new_players[2]
  /\ g_dps' = g_dps + new_players[3]
  /\ gen_pc' = "g_notify"
  /\ UNCHANGED <<config, flags, bonus_stats, records, duration,
                 state_mutex, pc, main_pc, new_players, elapsed>>

(* main.cpp:129-138 *)
InstanceUpdateUncounted(i) ==
  /\ pc[i] = "update"
  /\ state_mutex = i
  /\ status' = [status EXCEPT ![i] = "Empty"]
  /\ duration' = [duration EXCEPT ![i] = 0]
  /\ state_mutex' = NoOwner
  /\ pc' = [pc EXCEPT ![i] = "lock"]
  /\ UNCHANGED <<config, pool, flags, bonus_stats, served, total_time,
                 gen_pc, main_pc, new_players, elapsed>>

InstanceStepUncounted(i) ==
  \/ InstanceLock(i)
  \/ InstanceReacquire(i)
  \/ InstanceForm(i)
  \/ InstanceRelock(i)
  \/ InstanceUpdateUncounted(i)

GenStepUncounted ==
  \/ GenLock
  \/ GenReacquire
  \/ GenLoopUncounted
  \/ GenExpire
  \/ GenNotifyEnd
  \/ GenDepositUncounted
  \/ GenNotify
  \/ GenSleep

NextUncounted ==
  \/ \E i \in Workers : InstanceLock(i)
  \/ \E i \in Workers : InstanceReacquire(i)
  \/ \E i \in Workers : InstanceForm(i)
  \/ \E i \in Workers : InstanceRelock(i)
  \/ \E i \in Workers : InstanceUpdateUncounted(i)
  \/ GenStepUncounted
  \/ MainStep
  \/ SpuriousWake

(* Strong fairness of every thread: a step that is possible again and     *)
(* again (taking the mutex whenever it is free, for instance) is          *)
(* eventually taken.  A run that starves a thread under this assumption   *)
(* starves it under any weaker one.                                        *)
StrongFairness ==
  /\ \A i \in AllIds : SF_vars(i \in Workers /\ InstanceStepUncounted(i))
  /\ SF_vars(GenStepUncounted)
  /\ SF_vars(MainStep)

UncountedSpec == InitFair /\ [][NextUncounted]_vars /\ StrongFairness

(* ============================ properties ============================== *)
(* a party's worth of every role is in the pool *)
EnoughForParty ==
  g_tanks >= PartyTanks /\ g_healers >= PartyHealers /\ g_dps >= PartyDps

RECURSIVE SumOver(_, _)
SumOver(f, S) ==
  IF S = {} THEN 0
  ELSE LET x == CHOOSE y \in S : TRUE IN f[x] + SumOver(f, S \ {x})

TotalServed == SumOver(served, Workers)
ActiveSet == {i \in Workers : status[i] = "Active"}
AllTerminated == \A i \in Workers : pc[i] = "terminated"
Finished == AllTerminated /\ gen_pc = "g_done"

(* parties taken out of the pool, counted from the tank counter *)
PartiesWithdrawn == (init_tanks + g_bonus_tanks_added - g_tanks) \div PartyTanks

(* C1: withdrawal is an atomic check-and-act.  Every step that lowers a    *)
(* pool counter is taken by the one instance thread holding state_mutex,   *)
(* starts in a state with a full party in the pool, removes exactly one    *)
(* party, makes that thread Active and moves no other thread; and a thread *)
(* that has passed the wait while the simulation runs still has its party  *)
(* in the pool, so of several woken threads racing for one party only one  *)
(* gets past the wait.                                                     *)
C1_Step ==
  (g_tanks' < g_tanks \/ g_healers' < g_healers \/ g_dps' < g_dps) =>
    /\ EnoughForParty
    /\ g_tanks' = g_tanks - PartyTanks
    /\ g_healers' = g_healers - PartyHealers
    /\ g_dps' = g_dps - PartyDps
    /\ \E i \in Workers :
         /\ state_mutex = i
         /\ status[i] = "Empty" /\ status'[i] = "Active"
         /\ \A j \in Workers \ {i} : status'[j] = status[j] /\ pc'[j] = pc[j]
C1_PassedWait ==
  \A i \in Workers :
    (pc[i] = "form" /\ ~simulation_ended) =>
      /\ EnoughForParty
      /\ state_mutex = i
      /\ \A j \in Workers \ {i} : pc[j] # "form"
C1_AtomicWithdraw == [][C1_Step /\ C1_PassedWait']_vars

(* C1 witness: after a deposit, one thread has taken the only party and is *)
(* Active while another, woken by the same notification, finds none.       *)
C1_Witness ==
  /\ ~EnoughForParty /\ ~simulation_ended
  /\ g_bonus_tanks_added > 0
  /\ PartiesWithdrawn = 1 /\ init_tanks = 0
  /\ \E i \in Workers, j \in Workers :
       /\ i # j
       /\ status[i] = "Active" /\ pc[i] = "sleep"
       /\ pc[j] = "woken"

(* C2: the pool counters are never negative. *)
C2_NonNegative == g_tanks >= 0 /\ g_healers >= 0 /\ g_dps >= 0

(* C2 witness: the pool has been emptied by withdrawals after a deposit. *)
C2_Witness ==
  /\ g_tanks = 0 /\ g_healers = 0 /\ g_dps = 0
  /\ TotalServed >= 1 /\ g_bonus_dps_added > 0

(* C3: when the run has finished, for each role what the instances        *)
(* consumed plus what is left equals the initial count plus what the      *)
(* generator added.                                                        *)
C3_Conservation ==
  Finished =>
    /\ TotalServed * PartyTanks + g_tanks = init_tanks + g_bonus_tanks_added
    /\ TotalServed * PartyHealers + g_healers = init_healers + g_bonus_healers_added
    /\ TotalServed * PartyDps + g_dps = init_dps + g_bonus_dps_added

(* C3 witness: a finished run with parties served and players added. *)
C3_Witness ==
  /\ Finished
  /\ TotalServed >= 2
  /\ g_bonus_tanks_added > 0 /\ g_bonus_healers_added > 0 /\ g_bonus_dps_added > 0

(* C10: the number of parties in a dungeon (withdrawn and not yet        *)
(* completed) is the number of Active instances and never exceeds        *)
(* g_instances.                                                           *)
C10_ActiveAtMostN ==
  /\ Cardinality(ActiveSet) = PartiesWithdrawn - TotalServed
  /\ PartiesWithdrawn - TotalServed <= g_instances

(* C10 witness: every instance is Active at once. *)
C10_Witness ==
  /\ g_instances = MaxInstances
  /\ \A i \in Workers : status[i] = "Active"

(* C4: once simulation_ended is true, every instance thread eventually    *)
(* terminates.                                                             *)
C4_EndedLeadsToTerminated == simulation_ended ~> AllTerminated

(* C4 witness: the simulation has ended while one thread is still blocked *)
(* in the wait and another is in a dungeon.                                *)
C4_Witness ==
  /\ simulation_ended
  /\ \E i \in Workers, j \in Workers :
       pc[i] = "blocked" /\ pc[j] = "sleep"

Done == AllTerminated /\ gen_pc = "g_done" /\ main_pc = "done"

(* C5: no deadlock.  In every state in which some thread has not finished *)
(* a thread can take a step (a spurious wake-up does not count), and a    *)
(* thread blocked in the wait when simulation_ended is set does not stay  *)
(* blocked.                                                                *)
C5_NoDeadlock ==
  /\ [](~Done => ENABLED Progress)
  /\ \A i \in AllIds :
       (i \in Workers /\ pc[i] = "blocked" /\ simulation_ended)
         ~> ~(i \in Workers /\ pc[i] = "blocked")

(* C5 witness: the generator has set simulation_ended and has not yet     *)
(* notified; every instance thread is blocked in the wait.                *)
C5_Witness ==
  /\ simulation_ended /\ gen_pc = "g_notify_end"
  /\ g_instances = MaxInstances
  /\ \A i \in Workers : pc[i] = "blocked"

(* C6: with g_bonus_duration = 0 the run still shuts down: all instance   *)
(* threads terminate, main sets simulation_ended and both joins return.   *)
C6_InfiniteModeShutsDown == (g_bonus_duration = 0) => <>Done

(* C7: Scenario A.  The generator is never activated and never adds       *)
(* players, and the run ends with one party served in one second by each  *)
(* instance and an empty pool.                                             *)
IsScenarioA ==
  /\ g_instances = 2 /\ init_tanks = 2 /\ init_healers = 2 /\ init_dps = 6
  /\ g_t1 = 1 /\ g_t2 = 1 /\ g_bonus_duration = 0
C7_ScenarioA ==
  IsScenarioA =>
    /\ ~bonus_mode_active
    /\ g_bonus_tanks_added = 0 /\ g_bonus_healers_added = 0
    /\ g_bonus_dps_added = 0
    /\ Done => /\ \A i \in Workers : served[i] = 1 /\ total_time[i] = 1
               /\ g_tanks = 0 /\ g_healers = 0 /\ g_dps = 0

(* C8: Scenario B.  On a pool that cannot form a party, no thread gets    *)
(* past its first attempt before bonus mode is active, and none withdraws *)
(* before a deposit; while no tank has ever been in the pool no instance  *)
(* is Active or has served, and healers and dps are what the queue held   *)
(* plus what the generator added; and once simulation_ended is set every  *)
(* such thread terminates.                                                 *)
InitShort ==
  ~(init_tanks >= PartyTanks /\ init_healers >= PartyHealers /\ init_dps >= PartyDps)
NoTankEver == init_tanks = 0 /\ g_bonus_tanks_added = 0
C8_State ==
  /\ (InitShort /\ ~bonus_mode_active) =>
       /\ \A i \in Workers : pc[i] = "lock"
       /\ gen_pc \in {"g_lock", "g_blocked", "g_woken"}
  /\ NoTankEver =>
       /\ \A i \in Workers :
            /\ served[i] = 0 /\ total_time[i] = 0 /\ status[i] = "Empty"
            /\ pc[i] \in {"lock", "blocked", "woken", "form", "terminated"}
       /\ g_healers = init_healers + g_bonus_healers_added
       /\ g_dps = init_dps + g_bonus_dps_added
C8_ScenarioB ==
  /\ []C8_State
  /\ (NoTankEver /\ simulation_ended) ~> (NoTankEver => AllTerminated)

(* C8 witness: Scenario B's instance has terminated without serving; the  *)
(* generator was active and added dps but no tank.                         *)
C8_Witness ==
  /\ g_instances = 1 /\ init_tanks = 0 /\ init_healers = 1 /\ init_dps = 3
  /\ bonus_mode_active /\ g_bonus_tanks_added = 0 /\ g_bonus_dps_added > 0
  /\ pc[0] = "terminated" /\ served[0] = 0
  /\ g_healers = 1 + g_bonus_healers_added /\ g_dps = 3 + g_bonus_dps_added

(* C9: no starvation.  An instance thread that is again and again waiting *)
(* while a party can be formed again and again forms a party.              *)
Waiting(i) == i \in Workers /\ pc[i] \in {"blocked", "woken"}
C9_NoStarvation ==
  \A i \in AllIds :
    []<>(Waiting(i) /\ EnoughForParty) => []<>(i \in Workers /\ status[i] = "Active")

(* C11: bonus_mode_active goes from false to true exactly once in a run.   *)
(* The step that sets it is the locked block of one instance thread that  *)
(* takes the free mutex at the top of its loop and finds that no party    *)
(* can be formed; it wakes the generator if that is waiting, and no other *)
(* instance thread leaves the top of its loop in that step.  The flag     *)
(* never goes back to false, and under fair scheduling it is set in every *)
(* run.                                                                    *)
C11_Step ==
  /\ bonus_mode_active => bonus_mode_active'
  /\ (~bonus_mode_active /\ bonus_mode_active') =>
       /\ ~can_form_party
       /\ state_mutex = NoOwner
       /\ UNCHANGED pool
       /\ gen_pc = "g_blocked" => gen_pc' = "g_woken"
       /\ \E i \in Workers :
            /\ pc[i] = "lock" /\ pc'[i] = "blocked"
            /\ \A j \in Workers \ {i} : pc[j] = "lock" => pc'[j] = "lock"
C11_ActivatedOnce ==
  /\ ~bonus_mode_active
  /\ [][C11_Step]_vars
  /\ <>bonus_mode_active

(* C11 witness: two instance threads have found the pool short; bonus     *)
(* mode is active and both are blocked in the wait.                        *)
C11_Witness ==
  /\ bonus_mode_active /\ ~can_form_party /\ ~simulation_ended
  /\ g_instances = MaxInstances
  /\ \A i \in Workers : pc[i] = "blocked"
  /\ gen_pc = "g_loop"

(* C12: simulation_ended is false at the start and never goes from true   *)
(* to false.  The step that sets it is the generator's locked block on    *)
(* expiry of the bonus duration, or main's locked block after every       *)
(* instance thread has been joined.                                        *)
C12_Step ==
  /\ simulation_ended => simulation_ended'
  /\ (~simulation_ended /\ simulation_ended') =>
       \/ gen_pc = "g_expire" /\ bonus_expired /\ gen_pc' = "g_notify_end"
       \/ main_pc = "shutdown" /\ AllTerminated /\ main_pc' = "join_gen"
C12_EndedMonotonic == ~simulation_ended /\ [][C12_Step]_vars

(* C12 witness: simulation_ended is still true after every thread has     *)
(* taken its remaining steps.                                              *)
C12_Witness == simulation_ended /\ Done /\ TotalServed >= 1

(* C13: main's shutdown block, run when simulation_ended is already true, *)
(* changes neither the pool, the two flags, the instances' records nor    *)
(* the bonus counters, and moves no other thread.                          *)
C13_Step ==
  (main_pc = "shutdown" /\ main_pc' # main_pc /\ simulation_ended) =>
    /\ UNCHANGED <<pool, flags, records, bonus_stats>>
    /\ UNCHANGED <<pc, gen_pc, state_mutex>>
C13_ShutdownIdempotent == [][C13_Step]_vars

(* C13 witness: main has run its shutdown block after the generator set   *)
(* simulation_ended; parties were served and players were added.          *)
C13_Witness ==
  /\ main_pc = "join_gen" /\ simulation_ended /\ bonus_expired
  /\ TotalServed >= 1 /\ g_bonus_dps_added > 0

(* C14: an instance thread terminates only in a step taken with           *)
(* simulation_ended true and no party formable; a thread past the wait    *)
(* with simulation_ended true and a party formable withdraws it and goes  *)
(* into the dungeon; a terminated thread stays terminated, its record     *)
(* does not change, and it never holds the mutex again.                    *)
C14_Step ==
  \A i \in Workers :
    /\ (pc[i] # "terminated" /\ pc'[i] = "terminated") =>
         /\ simulation_ended /\ ~can_form_party
         /\ pc[i] = "form" /\ state_mutex = i
         /\ UNCHANGED pool
    /\ (pc[i] = "form" /\ pc'[i] # "form" /\ simulation_ended /\ can_form_party) =>
         /\ pc'[i] = "sleep" /\ status'[i] = "Active"
         /\ g_tanks' = g_tanks - PartyTanks
         /\ g_healers' = g_healers - PartyHealers
         /\ g_dps' = g_dps - PartyDps
    /\ pc[i] = "terminated" =>
         /\ pc'[i] = "terminated"
         /\ status'[i] = "Empty" /\ status[i] = "Empty"
         /\ served'[i] = served[i] /\ total_time'[i] = total_time[i]
         /\ state_mutex # i /\ state_mutex' # i
C14_TerminalCondition == [][C14_Step]_vars

(* C14 witness: a thread has passed the wait with simulation_ended true   *)
(* and a party in the pool.                                                *)
C14_Witness ==
  /\ simulation_ended /\ can_form_party
  /\ \E i \in Workers : pc[i] = "form" /\ state_mutex = i

(* C15: with g_bonus_duration > 0 every fairly scheduled run ends: bonus  *)
(* mode has been activated, the bonus duration has elapsed,               *)
(* simulation_ended is set, every instance thread has terminated, the     *)
(* generator has returned and main is past both joins.                    *)
C15_FiniteModeTerminates ==
  (g_bonus_duration > 0) =>
    <>(Done /\ bonus_mode_active /\ bonus_expired /\ simulation_ended)

(* C15 witness: a finished run with a bonus duration, in which parties    *)
(* were served from the queue and from the generator's players.           *)
C15_Witness ==
  /\ g_bonus_duration > 0 /\ Done
  /\ init_tanks >= 1 /\ g_bonus_tanks_added >= 1
  /\ TotalServed = init_tanks + g_bonus_tanks_added

C17_State ==
  ~bonus_mode_active =>
    /\ gen_pc \in {"g_lock", "g_blocked", "g_woken"}
    /\ g_bonus_tanks_added = 0 /\ g_bonus_healers_added = 0
    /\ g_bonus_dps_added = 0
    /\ new_players = <<0, 0, 0>>
C17_Step ==
  /\ ~bonus_mode_active =>
       /\ g_tanks' <= g_tanks /\ g_healers' <= g_healers /\ g_dps' <= g_dps
       /\ UNCHANGED bonus_stats
  /\ (gen_pc \in {"g_lock", "g_woken"} /\ gen_pc' # gen_pc /\ simulation_ended) =>
       /\ gen_pc' = "g_done"
       /\ UNCHANGED <<pool, bonus_stats>>
C17_DormantUntilActivated == []C17_State /\ [][C17_Step]_vars

(* C17 witness: parties have been served from the queue while the         *)
(* generator, woken without cause, is about to test its predicate again.  *)
C17_Witness ==
  /\ ~bonus_mode_active /\ gen_pc = "g_woken"
  /\ TotalServed >= 1
  /\ g_tanks + TotalServed + Cardinality(ActiveSet) = init_tanks

(* C18: once simulation_ended is true the generator is out of its loop    *)
(* (about to notify, or returned); no step taken with simulation_ended    *)
(* true, nor the step that sets it, raises a pool counter or changes the  *)
(* bonus counters.                                                         *)
C18_State == simulation_ended => gen_pc \in {"g_notify_end", "g_done"}
C18_Step ==
  (simulation_ended \/ simulation_ended') =>
    /\ g_tanks' <= g_tanks /\ g_healers' <= g_healers /\ g_dps' <= g_dps
    /\ UNCHANGED bonus_stats
C18_NoDepositAfterEnd == []C18_State /\ [][C18_Step]_vars

(* C18 witness: after the end of the simulation a party that the          *)
(* generator added is still in the pool, and the generator has returned.  *)
C18_Witness ==
  /\ simulation_ended /\ gen_pc = "g_done"
  /\ EnoughForParty /\ init_tanks = 0 /\ g_bonus_tanks_added > 0

(* C19: state_mutex is not held during a dungeon run.  A thread in its    *)
(* sleep does not own the mutex; the owner, if any, is an instance thread *)
(* inside one of its two locked blocks; and while some thread sleeps and  *)
(* the mutex is free, every thread at the top of its loop can take it and *)
(* the generator can make its deposit.                                     *)
C19_State ==
  /\ \A i \in Workers :
       pc[i] = "sleep" => state_mutex # i /\ status[i] = "Active"
  /\ state_mutex # NoOwner =>
       state_mutex \in Workers /\ pc[state_mutex] \in {"form", "update"}
  /\ ((\E i \in Workers : pc[i] = "sleep") /\ state_mutex = NoOwner) =>
       /\ \A j \in Workers : pc[j] = "lock" => ENABLED InstanceLock(j)
       /\ gen_pc = "g_deposit" => ENABLED GenDeposit
C19_NoLockInDungeon == C19_State

(* C19 witness: one instance is in its dungeon while another holds the    *)
(* mutex, about to withdraw a party that the generator deposited during   *)
(* that run.                                                               *)
C19_Witness ==
  /\ init_tanks = 1 /\ g_bonus_tanks_added = 1 /\ EnoughForParty
  /\ \E i \in Workers, j \in Workers :
       /\ pc[i] = "sleep" /\ status[i] = "Active"
       /\ pc[j] = "form" /\ state_mutex = j
       /\ served[i] = 0 /\ served[j] = 0

(* C20: no lost wake-up.  A thread is blocked in the wait with a party in *)
(* the pool only between a deposit and its notify_all; from there some    *)
(* thread withdraws a party; and a thread blocked when simulation_ended   *)
(* is true gets past the wait.                                             *)
C20_State ==
  (can_form_party /\ \E i \in Workers : pc[i] = "blocked") => gen_pc = "g_notify"
C20_NoLostWakeup ==
  /\ []C20_State
  /\ \A k \in 0 .. (MaxInitParties + MaxAddedParties) :
       (/\ gen_pc = "g_notify" /\ can_form_party
        /\ \E i \in Workers : pc[i] = "blocked"
        /\ PartiesWithdrawn = k)
         ~> (PartiesWithdrawn > k)
  /\ \A i \in AllIds :
       (i \in Workers /\ pc[i] = "blocked" /\ simulation_ended)
         ~> (i \in Workers /\ pc[i] = "form")

(* C20 witness: the generator has deposited a party's worth of players    *)
(* and has not yet notified; every instance thread is blocked in the wait. *)
C20_Witness ==
  /\ gen_pc = "g_notify" /\ can_form_party
  /\ g_instances = MaxInstances
  /\ \A i \in Workers : pc[i] = "blocked"

(* C21: when the run has finished the pool does not hold a party, and the *)
(* number of parties served by all instances is the number the players    *)
(* that entered the pool (the queue plus the bonus players) can make up:  *)
(* the least of the tanks, the healers and a third of the dps.            *)
Min2(a, b) == IF a <= b THEN a ELSE b
MaxParties ==
  Min2((init_tanks + g_bonus_tanks_added) \div PartyTanks,
       Min2((init_healers + g_bonus_healers_added) \div PartyHealers,
            (init_dps + g_bonus_dps_added) \div PartyDps))
C21_NoPartyLeftBehind ==
  Done => ~EnoughForParty /\ TotalServed = MaxParties

(* C21 witness: a finished run that served parties from the queue and     *)
(* from bonus players and leaves players of some role behind.             *)
C21_Witness ==
  /\ Done /\ TotalServed >= 2
  /\ g_bonus_tanks_added >= 1
  /\ g_tanks + g_healers + g_dps > 0

(* C22: an instance thread has terminated only if simulation_ended and    *)
(* bonus_mode_active are true; so main's shutdown block never finds       *)
(* simulation_ended false, and the generator never returns straight from  *)
(* its first wait.                                                         *)
C22_State ==
  (\E i \in Workers : pc[i] = "terminated") =>
    simulation_ended /\ bonus_mode_active
C22_Step ==
  /\ ~(main_pc = "shutdown" /\ main_pc' # main_pc /\ ~simulation_ended)
  /\ ~(gen_pc \in {"g_lock", "g_blocked", "g_woken"} /\ gen_pc' = "g_done")
C23_State ==
  \A i \in Workers :
    /\ g_t1 * served[i] <= total_time[i]
    /\ total_time[i] <= g_t2 * served[i]
    /\ status[i] = "Active" => duration[i] \in g_t1 .. g_t2
C23_Step ==
  \A i \in Workers :
    /\ (status[i] = "Empty" /\ status'[i] = "Active") =>
         served'[i] = served[i] /\ total_time'[i] = total_time[i]
    /\ (status[i] = "Active" /\ status'[i] = "Empty") =>
         /\ served'[i] = served[i] + 1
         /\ total_time'[i] - total_time[i] \in g_t1 .. g_t2
    /\ status'[i] = status[i] =>
         served'[i] = served[i] /\ total_time'[i] = total_time[i]
C23_BusyTimeBounds ==
  /\ []C23_State
  /\ [][C23_Step]_vars
  /\ [](TotalServed + Cardinality(ActiveSet) = PartiesWithdrawn)

(* C23 witness: an instance with two runs of different lengths behind it  *)
(* is in its third, which served does not count yet.                      *)
C23_Witness ==
  \E i \in Workers :
    /\ served[i] = 2 /\ status[i] = "Active"
    /\ g_t1 * served[i] < total_time[i] /\ total_time[i] < g_t2 * served[i]

====
